---- MODULE Spec2Model ----
(***************************************************************************)
(* Handdown frontend.  Each screen is a component with its own state and  *)
(* has its own specification here; a specification leaves the variables of *)
(* the other screens at their initial values.                              *)
(*                                                                         *)
(*   Spec, FairSpec  the listings feed of LandingScreen                    *)
(*                   (src/app/(tabs)/index.tsx)                            *)
(*   SpecEnrich      the thumbnail selection of the landing feed and of    *)
(*                   Your Listings (src/app/Your_Listings.tsx)             *)
(*   SpecCreate      CreateListingScreen: validateForm and handlePublish   *)
(*   SpecUpdate      UpdateListingScreen: the load on mount, change        *)
(*                   tracking and handleUpdate                             *)
(*   SpecChats       ChatsScreen: loadConversations and handleRefresh      *)
(*                   (src/app/(tabs)/_layout.tsx)                          *)
(*   SpecTime        formatMessageTime of the chat tiles                   *)
(*   SpecProfile     fetchProfile and its effect on the Listing Detail     *)
(*                   screen (src/app/[id].tsx) and the Profile screen      *)
(*                                                                         *)
(* LandingScreen: the component state is the four useState cells listings, loading,       *)
(* hasMore and lastTime.  A handler (the mount effect, loadMore, the       *)
(* FlatList onRefresh callback) reads the state of the render that created *)
(* it and its setState calls are committed together before the next event  *)
(* is handled, so each handler is one atomic action.  The only suspension  *)
(* point of fetchListings is the network call: the part before the await   *)
(* belongs to the handler that called it, the part after it (try body,     *)
(* catch, finally) is one action per outcome.                              *)
(*                                                                         *)
(* The backend is outside the repository.  It holds `total` listings in    *)
(* recency order and answers a request with the first `limit` listings     *)
(* older than the cursor (or, when it treats the cursor as inclusive, not  *)
(* newer than it: the overlapping boundary item), with a JSON body that    *)
(* lacks `listings`, or with a failure.                                    *)
(***************************************************************************)
EXTENDS Integers, Sequences, FiniteSets, TLC

\* ---------------------------------------------------------------- bounds
\* largest number of listings the backend holds
NumItems == 17
\* longest accumulated list explored
MaxListings == 26
\* most pages appended to one first page
MaxPages == 3
\* most images of one listing
MaxImages == 4
\* the values of an image's position
Positions == (0 - 1)..1
\* most handlePublish calls suspended at once
MaxPublishes == 1
\* most PUT requests in flight at once
MaxUpdates == 1
\* most loadConversations timers pending at once
MaxTimers == 2
\* the clock of the chats screen stops after this many timer delays
MaxTicks == 3
\* formatMessageTime is applied to elapsed times of up to this many minutes,
\* hours and days
MaxUnits == 9

\* ------------------------------------------------------ program constants
\* limit: 12 in createQuery, and the literal 12 of setHasMore
PageSize == 12
\* useState<string | null>(null): the absent cursor
null == 0 - 1

VARIABLES
    mounted,    \* the mount effect has run
    listings,   \* useState<Listing[]>([])
    loading,    \* useState(false)
    hasMore,    \* useState(true)
    lastTime,   \* useState<string | null>(null)
    inflight,   \* requests sent and not yet settled, in the order sent
    total,      \* the number of listings the backend holds
    event,      \* history: the handler that ran last
    resp,       \* history: the outcome the last continuation ran with
    applied,    \* history: sizes of the pages applied since the last replace
    refreshed,  \* history: onRefresh ran since the last page was applied
    \* thumbnail selection
    eInput,     \* item.listing_images of the listing being mapped
    eLanding,   \* thumbnail_url computed by LandingScreen
    eYours,     \* thumbnail_url computed by Your Listings
    \* CreateListingScreen
    createForm,   \* images, title, description, price, conditionValue,
                  \* categoryValue, location (one useState cell each)
    createErrors, \* useState<FormErrors>({}): the fields with a message
    createOps,    \* the handlePublish calls suspended at an await
    createRoute,  \* the route shown: router.push('/') leaves the screen
    createLast,   \* history: the last handler or continuation that ran
    \* UpdateListingScreen
    updParams,    \* useLocalSearchParams(): strings, "" when absent
    updListing,   \* the listing as the backend holds it
    updForm,      \* images, title, ..., location (one useState cell each)
    updOriginal,  \* useState<any>(null): originalData
    updLoading,   \* useState(true)
    updDataLoaded, \* useState(false)
    updErrors,    \* useState<FormErrors>({})
    updOps,       \* the requests (GET, PUT) sent and not yet settled
    updRoute,     \* the route shown
    updLast,      \* history: the last handler or continuation that ran
    \* ChatsScreen
    chatMounted,  \* the mount effect has run
    conversations, \* useState<Conversation[]>([])
    chatLoading,  \* useState(false): loading
    refreshing,   \* useState(false)
    chatTimers,   \* the setTimeout callbacks not yet run, oldest first
    chatNow,      \* Date.now(), in milliseconds
    \* formatMessageTime
    tNow,         \* new Date() inside the function, in milliseconds
    tTimestamp,   \* the argument, an ISO 8601 timestamp
    tResult,      \* the returned text, once the function has run
    \* Listing Detail / Profile screen
    profScreen,   \* which of the two screens this is
    profMounted,  \* the effect has run for the first time
    offering_uid, \* the route parameter (Listing Detail)
    profileData,  \* useState<ProfileData | null>(null)
    profileLoading, \* useState(false)
    profileError, \* useState<string | null>(null)
    profOps,      \* the profile requests sent and not yet settled
    profLast      \* history: the last effect run or continuation

feedVars == <<mounted, listings, loading, hasMore, lastTime, inflight, total, event, resp, applied, refreshed>>
enrichVars == <<eInput, eLanding, eYours>>
createVars == <<createForm, createErrors, createOps, createRoute, createLast>>
updateVars == <<updParams, updListing, updForm, updOriginal, updLoading,
                updDataLoaded, updErrors, updOps, updRoute, updLast>>

chatVars == <<chatMounted, conversations, chatLoading, refreshing, chatTimers,
              chatNow>>
timeVars == <<tNow, tTimestamp, tResult>>
profileVars == <<profScreen, profMounted, offering_uid, profileData,
                 profileLoading, profileError, profOps, profLast>>

vars == <<feedVars, enrichVars, createVars, updateVars, chatVars, timeVars,
          profileVars>>

\* the variables of the other screens, for each screen
notFeed == <<enrichVars, createVars, updateVars, chatVars, timeVars, profileVars>>
notEnrich == <<feedVars, createVars, updateVars, chatVars, timeVars, profileVars>>
notCreate == <<feedVars, enrichVars, updateVars, chatVars, timeVars, profileVars>>
notUpdate == <<feedVars, enrichVars, createVars, chatVars, timeVars, profileVars>>
notChat == <<feedVars, enrichVars, createVars, updateVars, timeVars, profileVars>>
notTime == <<feedVars, enrichVars, createVars, updateVars, chatVars, profileVars>>
notProfile == <<feedVars, enrichVars, createVars, updateVars, chatVars, timeVars>>

\* ------------------------------------------------------------ the backend
\* a listing_images value ({position, image_url}[] | null): `isNull` tells
\* null from an array, `items` is the array
NullImages == [ isNull |-> TRUE, items |-> <<>> ]
ImageArray(items) == [ isNull |-> FALSE, items |-> items ]

\* images of catalogue item i; image_url values are numbers standing for
\* distinct URL strings
ImagesOf(i) ==
    CASE i % 4 = 0 -> ImageArray(<<>>)
      [] i % 4 = 1 -> ImageArray(<< [position |-> 2, image_url |-> 20 + i],
                                    [position |-> 0, image_url |-> 10 + i] >>)
      [] i % 4 = 2 -> ImageArray(<< [position |-> 1, image_url |-> 30 + i],
                                    [position |-> 1, image_url |-> 40 + i],
                                    [position |-> 3, image_url |-> 50 + i] >>)
      [] OTHER     -> NullImages

\* ApiListing: item i of the catalogue, most recent first
ApiListing(i) ==
    [ listing_id    |-> i,
      time_updated  |-> 1000 - 10 * i,
      listing_images |-> ImagesOf(i) ]

\* a contiguous run of the catalogue
Window(start, len) == [ k \in 1..len |-> ApiListing(start + k - 1) ]

\* the position of the first listing the backend returns for a cursor:
\* the first one older than the cursor, or not newer when `inclusive`
PageStart(cursor, inclusive, n) ==
    IF cursor = null THEN 1
    ELSE LET older == { i \in 1..n :
                          \/ ApiListing(i).time_updated < cursor
                          \/ inclusive /\ ApiListing(i).time_updated = cursor }
         IN  IF older = {} THEN n + 1
             ELSE CHOOSE i \in older : \A j \in older : i <= j

\* the JSON body of an OK answer to `query` from a backend holding n
\* listings: at most query.limit listings from the page start on
PageBody(query, inclusive, n) ==
    LET start == PageStart(query.last_time, inclusive, n)
        rest  == n - start + 1
    IN  [ has_listings |-> TRUE,
          listings |-> Window(start, IF rest < query.limit THEN rest ELSE query.limit) ]

\* an OK answer whose JSON has no `listings` field
NoListingsBody == [ has_listings |-> FALSE, listings |-> <<>> ]

\* the bodies an OK answer to `query` may carry
Bodies(query, n) ==
    { PageBody(query, inclusive, n) : inclusive \in BOOLEAN } \cup { NoListingsBody }

\* --------------------------------------------------------- pure functions
\* createQuery: last_time is included only when truthy
createQuery(last_time) ==
    [ schema_name |-> "ucberkeley",
      limit       |-> PageSize,
      last_time   |-> IF last_time # null THEN last_time ELSE null ]

\* mutant of InsertByPosition: x goes in front of the elements with an equal
\* position (an unstable sort)
RECURSIVE InsertByPosition_Unstable(_, _)
InsertByPosition_Unstable(x, s) ==
    IF s = <<>> THEN <<x>>
    ELSE IF x.position <= Head(s).position THEN <<x>> \o s
    ELSE <<Head(s)>> \o InsertByPosition_Unstable(x, Tail(s))

\* insert image x into the position-sorted sequence s, after every element
\* whose position is not larger (a stable sort keeps equal positions in
\* their original order)
RECURSIVE InsertByPosition(_, _)
InsertByPosition(x, s) ==
    IF s = <<>> THEN <<x>>
    ELSE IF x.position < Head(s).position THEN <<x>> \o s
    ELSE <<Head(s)>> \o InsertByPosition(x, Tail(s))

\* [...item.listing_images].sort((a, b) => a.position - b.position)
RECURSIVE sortedImages(_)
sortedImages(images) ==
    IF images = <<>> THEN <<>>
    ELSE InsertByPosition(images[Len(images)],
                          sortedImages(SubSeq(images, 1, Len(images) - 1)))

\* thumbnailUrl: first image by position, '' (modelled as 0) when there is
\* no image set or it is empty
thumbnailUrl(images) ==
    IF images.isNull THEN 0
    ELSE IF Len(sortedImages(images.items)) > 0
         THEN sortedImages(images.items)[1].image_url
         ELSE 0

\* the object literal returned by the .map callback
MapListing(item) ==
    [ id            |-> item.listing_id,
      time_updated  |-> item.time_updated,
      thumbnail_url |-> thumbnailUrl(item.listing_images) ]

\* mappedListings = (data.listings ?? []).map(...)
mappedListings(data) ==
    IF data.has_listings
    THEN [ k \in 1..Len(data.listings) |-> MapListing(data.listings[k]) ]
    ELSE <<>>

\* mutant of hasMoreAfter: more is expected after any non-empty page
hasMoreAfter_NonEmpty(mapped) == Len(mapped) > 0

\* setHasMore(mappedListings.length === 12)
hasMoreAfter(mapped) == Len(mapped) = PageSize

\* mutant of mergeListings: incoming items whose id is already listed are
\* dropped
mergeListings_Dedup(prev, mapped, append) ==
    IF append
    THEN prev \o SelectSeq(mapped, LAMBDA m : \A k \in DOMAIN prev : prev[k].id # m.id)
    ELSE mapped

\* mutant of mergeListings: the incoming page is put in front
mergeListings_Prepend(prev, mapped, append) ==
    IF append THEN mapped \o prev ELSE mapped

\* if (append) setListings(prev => [...prev, ...mappedListings])
\* else setListings(mappedListings)
mergeListings(prev, mapped, append) ==
    IF append THEN prev \o mapped ELSE mapped

\* mutant of lastTimeAfter: the cursor is taken from the first item
lastTimeAfter_FirstItem(prev, mapped) ==
    IF Len(mapped) > 0 THEN mapped[1].time_updated ELSE prev

\* if (mappedListings.length > 0) setLastTime(last.time_updated)
lastTimeAfter(prev, mapped) ==
    IF Len(mapped) > 0 THEN mapped[Len(mapped)].time_updated ELSE prev

\* mutant of fetchRejected: the loading guard is missing
fetchRejected_Never == FALSE

\* if (loading) return;  -- the guard at the top of fetchListings
fetchRejected == loading

\* mutant of loadMoreAllowed: the exhausted feed is not checked
loadMoreAllowed_IgnoresHasMore == ~loading

\* if (hasMore && !loading)  -- the guard of loadMore
loadMoreAllowed == hasMore /\ ~loading

\* ---------------------------------------------------------------- actions
\* the feed fields an operation is not supposed to lose on failure
FeedFields == [ listings |-> listings, lastTime |-> lastTime, hasMore |-> hasMore ]

\* a request on the wire; `before` and `stale` are history fields: the feed
\* as it was when the operation began, and whether a refresh was invoked
\* after the request was sent
Request(last_time, append, before) ==
    [ query  |-> createQuery(last_time),
      append |-> append,
      before |-> before,
      stale  |-> FALSE ]

\* fetchListings up to the await: reject when loading, else setLoading(true)
\* and send the request.  `pending` is the requests already on the wire.
fetchListings(last_time, append, before, pending) ==
    IF fetchRejected
    THEN /\ loading' = loading
         /\ inflight' = pending
    ELSE /\ loading' = TRUE
         /\ inflight' = Append(pending, Request(last_time, append, before))

\* LandingScreen after construction, with a backend holding n listings
FeedInit(n) ==
    /\ mounted = FALSE
    /\ listings = <<>>
    /\ loading = FALSE
    /\ hasMore = TRUE
    /\ lastTime = null
    /\ inflight = <<>>
    /\ total = n
    /\ event = "init"
    /\ resp = [ ok |-> FALSE, data |-> NoListingsBody,
                req |-> Request(null, FALSE, [ listings |-> <<>>, lastTime |-> null, hasMore |-> TRUE ]) ]
    /\ applied = <<>>
    /\ refreshed = FALSE

\* no listing is being mapped
EnrichIdle ==
    /\ eInput = NullImages
    /\ eLanding = [ done |-> FALSE, url |-> 0 ]
    /\ eYours = [ done |-> FALSE, url |-> 0 ]

\* CreateListingScreen after construction
EmptyForm ==
    [ images |-> <<>>, title |-> "", description |-> "", price |-> "",
      conditionValue |-> "", categoryValue |-> null, location |-> "" ]
NothingYet == [ event |-> "init", outcome |-> "none", alert |-> FALSE, pushed |-> FALSE ]
CreateIdle ==
    /\ createForm = EmptyForm
    /\ createErrors = {}
    /\ createOps = <<>>
    /\ createRoute = "/create_listing"
    /\ createLast = NothingYet

\* a JS value that is a number, NaN, or null/undefined
NaN == [ kind |-> "nan", val |-> 0 ]
Num(v) == [ kind |-> "num", val |-> v ]
NoValue == [ kind |-> "null", val |-> 0 ]

\* router.push({ pathname: '/update_listing', params: { id } }), or the
\* screen opened directly
idParams(id) ==
    [ id |-> id, title |-> "", description |-> "", price |-> "",
      condition |-> "", listing_type_id |-> "", region_id |-> "",
      thumbnail_url |-> 0 ]

\* originalData: null, or the data object stored by setOriginalData
NoData ==
    [ title |-> "", description |-> "", price |-> NoValue, condition |-> "",
      listing_type_id |-> NoValue, region_id |-> NoValue, thumbnail_url |-> 0 ]
NoOriginal == [ isNull |-> TRUE, data |-> NoData ]
Original(data) == [ isNull |-> FALSE, data |-> data ]

\* UpdateListingScreen after construction; no listing is being edited
UpdateIdle ==
    /\ updParams = idParams("")
    /\ updListing = NoData
    /\ updForm = EmptyForm
    /\ updOriginal = NoOriginal
    /\ updLoading = TRUE
    /\ updDataLoaded = FALSE
    /\ updErrors = {}
    /\ updOps = <<>>
    /\ updRoute = "/update_listing"
    /\ updLast = NothingYet

\* ChatsScreen after construction, before its mount effect
ChatIdle ==
    /\ chatMounted = FALSE
    /\ conversations = <<>>
    /\ chatLoading = FALSE
    /\ refreshing = FALSE
    /\ chatTimers = <<>>
    /\ chatNow = 0

\* formatMessageTime is not being applied
NoText == [ kind |-> "none", n |-> 0 ]
TimeIdle ==
    /\ tNow = 0
    /\ tTimestamp = [ day |-> 0, ms |-> 0 ]
    /\ tResult = [ done |-> FALSE, text |-> NoText ]

\* a route parameter: missing, a string, or an array of strings
MissingParam == [ kind |-> "missing", s |-> "" ]
StringParam(s) == [ kind |-> "string", s |-> s ]
ArrayParam == [ kind |-> "array", s |-> "" ]

\* profileData: null or a profile; profileError: null or a message
NoProfile == [ isNull |-> TRUE, profile_id |-> "", n |-> 0 ]
NoError == [ isNull |-> TRUE, message |-> "" ]
ErrorMessage(m) == [ isNull |-> FALSE, message |-> m ]
NoResponse == [ ok |-> FALSE, has_data |-> FALSE, data |-> <<>> ]
NoFetch == [ event |-> "init", outcome |-> "none", response |-> NoResponse ]

\* the state of the profile card after construction
ProfileState ==
    /\ profMounted = FALSE
    /\ profileData = NoProfile
    /\ profileLoading = FALSE
    /\ profileError = NoError
    /\ profOps = <<>>
    /\ profLast = NoFetch

\* neither screen is open
ProfileIdle ==
    /\ profScreen = "none"
    /\ offering_uid = MissingParam
    /\ ProfileState

Init ==
    /\ \E n \in 0..NumItems : FeedInit(n)
    /\ EnrichIdle
    /\ CreateIdle
    /\ UpdateIdle
    /\ ChatIdle
    /\ TimeIdle
    /\ ProfileIdle

\* useEffect(() => { fetchListings(null, false); }, [])
Mount ==
    /\ ~mounted
    /\ mounted' = TRUE
    /\ fetchListings(null, FALSE, FeedFields, inflight)
    /\ event' = "mount"
    /\ UNCHANGED <<listings, hasMore, lastTime, total, resp, applied, refreshed>>
    /\ UNCHANGED notFeed

\* onEndReached={loadMore}
loadMore ==
    /\ mounted
    /\ IF loadMoreAllowed
       THEN fetchListings(lastTime, TRUE, FeedFields, inflight)
       ELSE UNCHANGED <<loading, inflight>>
    /\ event' = "loadMore"
    /\ UNCHANGED <<mounted, listings, hasMore, lastTime, total, resp, applied, refreshed>>
    /\ UNCHANGED notFeed

\* mutant of onRefresh: the cursor and the exhausted flag are kept and the
\* request is sent with the current cursor
onRefresh_KeepsCursor ==
    /\ mounted
    /\ fetchListings(lastTime, FALSE, FeedFields,
                     [ k \in DOMAIN inflight |-> [ inflight[k] EXCEPT !.stale = TRUE ] ])
    /\ event' = "refresh"
    /\ refreshed' = TRUE
    /\ UNCHANGED <<mounted, listings, lastTime, hasMore, total, resp, applied>>
    /\ UNCHANGED notFeed

\* onRefresh: setLastTime(null); setHasMore(true); fetchListings(null, false)
onRefresh ==
    /\ mounted
    /\ lastTime' = null
    /\ hasMore' = TRUE
    /\ fetchListings(null, FALSE, FeedFields,
                     [ k \in DOMAIN inflight |-> [ inflight[k] EXCEPT !.stale = TRUE ] ])
    /\ event' = "refresh"
    /\ refreshed' = TRUE
    /\ UNCHANGED <<mounted, listings, total, resp, applied>>
    /\ UNCHANGED notFeed

\* the sequence s without its i-th element
RemoveAt(s, i) == SubSeq(s, 1, i - 1) \o SubSeq(s, i + 1, Len(s))

\* the continuation of fetchListings after a response with an OK status and
\* a JSON body: the rest of the try block, then finally
FetchSucceeds ==
    \E i \in DOMAIN inflight : \E data \in Bodies(inflight[i].query, total) :
        LET req    == inflight[i]
            mapped == mappedListings(data)
        IN  /\ Len(mergeListings(listings, mapped, req.append)) <= MaxListings
            /\ req.append => Len(applied) <= MaxPages
            /\ hasMore' = hasMoreAfter(mapped)
            /\ listings' = mergeListings(listings, mapped, req.append)
            /\ lastTime' = lastTimeAfter(lastTime, mapped)
            /\ loading' = FALSE
            /\ inflight' = RemoveAt(inflight, i)
            /\ event' = "response"
            /\ resp' = [ ok |-> TRUE, data |-> data, req |-> req ]
            /\ applied' = IF req.append THEN Append(applied, Len(mapped))
                                        ELSE <<Len(mapped)>>
            /\ refreshed' = FALSE
            /\ UNCHANGED <<mounted, total>>
            /\ UNCHANGED notFeed

\* mutant of FetchFails: the failed request is sent again
FetchFails_Retries ==
    \E i \in DOMAIN inflight :
        /\ loading' = TRUE
        /\ inflight' = Append(RemoveAt(inflight, i), [ inflight[i] EXCEPT !.stale = FALSE ])
        /\ event' = "response"
        /\ resp' = [ ok |-> FALSE, data |-> NoListingsBody,
                     req |-> inflight[i] ]
        /\ UNCHANGED <<mounted, listings, hasMore, lastTime, total, applied, refreshed>>
        /\ UNCHANGED notFeed

\* mutant of FetchFails: no finally block, loading is left set
FetchFails_StaysLoading ==
    \E i \in DOMAIN inflight :
        /\ inflight' = RemoveAt(inflight, i)
        /\ event' = "response"
        /\ resp' = [ ok |-> FALSE, data |-> NoListingsBody,
                     req |-> inflight[i] ]
        /\ UNCHANGED <<mounted, listings, loading, hasMore, lastTime, total, applied, refreshed>>
        /\ UNCHANGED notFeed

\* the continuation when fetch rejects, the status is not OK or the body is
\* not JSON: catch (console.error), then finally
FetchFails ==
    \E i \in DOMAIN inflight :
        /\ loading' = FALSE
        /\ inflight' = RemoveAt(inflight, i)
        /\ event' = "response"
        /\ resp' = [ ok |-> FALSE, data |-> NoListingsBody,
                     req |-> inflight[i] ]
        /\ UNCHANGED <<mounted, listings, hasMore, lastTime, total, applied, refreshed>>
        /\ UNCHANGED notFeed

Next == Mount \/ loadMore \/ onRefresh \/ FetchSucceeds \/ FetchFails

Spec == Init /\ [][Next]_vars

\* ------------------------------------------------- thumbnail selection
\* Your_Listings.tsx, fetchProfileListings: the same sort and selection as
\* the landing feed
yoursThumbnailUrl(images) ==
    IF images.isNull THEN 0
    ELSE IF Len(sortedImages(images.items)) > 0
         THEN sortedImages(images.items)[1].image_url
         ELSE 0

\* the image sets tried: null, and every array of at most MaxImages images
\* with a position in Positions; the k-th image has URL 100 + k
ImageArrays(n) ==
    { [ k \in 1..n |-> [ position |-> pos[k], image_url |-> 100 + k ] ] :
        pos \in [ 1..n -> Positions ] }
ImageInputs ==
    { NullImages } \cup UNION { { ImageArray(a) : a \in ImageArrays(n) } : n \in 0..MaxImages }

InitEnrich ==
    /\ FeedInit(0)
    /\ CreateIdle
    /\ UpdateIdle
    /\ ChatIdle
    /\ TimeIdle
    /\ ProfileIdle
    /\ eInput \in ImageInputs
    /\ eLanding = [ done |-> FALSE, url |-> 0 ]
    /\ eYours = [ done |-> FALSE, url |-> 0 ]

\* LandingScreen maps the listing
EnrichLanding ==
    /\ ~eLanding.done
    /\ eLanding' = [ done |-> TRUE, url |-> thumbnailUrl(eInput) ]
    /\ UNCHANGED <<eInput, eYours>>
    /\ UNCHANGED notEnrich

\* Your Listings maps the listing
EnrichYours ==
    /\ ~eYours.done
    /\ eYours' = [ done |-> TRUE, url |-> yoursThumbnailUrl(eInput) ]
    /\ UNCHANGED <<eInput, eLanding>>
    /\ UNCHANGED notEnrich

NextEnrich == EnrichLanding \/ EnrichYours

SpecEnrich == InitEnrich /\ [][NextEnrich]_vars

\* ------------------------------------------------- CreateListingScreen
\* the texts typed into a text field: empty, blanks only, a word, a decimal
\* number, and the selectable values of the other fields
Titles == { "", " ", "Desk" }
Descriptions == { "", "Oak desk" }
Prices == { "", " ", "abc", "25" }
Conditions == { "", "new" }
Categories == { null, 1, 4 }
Locations == { "", "Sample Location" }
ImageLists == { <<>>, <<1>>, <<1, 2>> }

Forms ==
    [ images : ImageLists, title : Titles, description : Descriptions,
      price : Prices, conditionValue : Conditions, categoryValue : Categories,
      location : Locations ]

\* String.prototype.trim on the texts above
Trim(str) == IF str = " " THEN "" ELSE str

\* Number(str): the empty string and a string of white space convert to 0,
\* a decimal literal to its value, any other text to NaN
Number(str) ==
    CASE str = ""   -> Num(0)
      [] str = " "  -> Num(0)
      [] str = "0"  -> Num(0)
      [] str = "1"  -> Num(1)
      [] str = "4"  -> Num(4)
      [] str = "25" -> Num(25)
      [] str = "30" -> Num(30)
      [] OTHER      -> NaN

\* String(n) / n.toString() of a number
String(n) ==
    CASE n.kind = "nan" -> "NaN"
      [] n.val = 0  -> "0"
      [] n.val = 1  -> "1"
      [] n.val = 4  -> "4"
      [] n.val = 25 -> "25"
      [] OTHER      -> "30"

\* a value is truthy: a number other than 0 and NaN
Truthy(n) == n.kind = "num" /\ n.val # 0

\* a !== b on such values: NaN differs from everything, itself included
StrictNotEqual(a, b) == a.kind = "nan" \/ b.kind = "nan" \/ a # b

\* validateForm: the keys of newErrors
newErrors(form) ==
    { f \in { "images", "title", "description", "price", "condition",
              "category", "location" } :
        \/ f = "images" /\ Len(form.images) = 0
        \/ f = "title" /\ Trim(form.title) = ""
        \/ f = "description" /\ Trim(form.description) = ""
        \/ f = "price" /\ (form.price = "" \/ Number(form.price).kind = "nan")
        \/ f = "condition" /\ form.conditionValue = ""
        \/ f = "category" /\ (form.categoryValue = null \/ form.categoryValue = 0)
        \/ f = "location" /\ form.location = "" }

\* validateForm's result: Object.keys(newErrors).length === 0
validateForm(form) == newErrors(form) = {}

\* the payload object built by handlePublish
payload(form) ==
    [ offering_uid |-> "51e242d0-e313-47f8-a881-27bba664a57b",
      schema_name  |-> "ucberkeley",
      listing_type |-> 1,
      title        |-> form.title,
      description  |-> form.description,
      price        |-> Number(form.price),
      condition    |-> form.conditionValue,
      region_id    |-> 1,
      tag_ids      |-> IF form.categoryValue # null /\ form.categoryValue # 0
                       THEN <<form.categoryValue>> ELSE <<>>,
      campus_region_id |-> 1 ]

\* the user has filled in the form in any way; nothing was validated yet
InitCreate ==
    /\ FeedInit(0)
    /\ EnrichIdle
    /\ UpdateIdle
    /\ ChatIdle
    /\ TimeIdle
    /\ ProfileIdle
    /\ createForm \in Forms
    /\ createErrors = {}
    /\ createOps = <<>>
    /\ createRoute = "/create_listing"
    /\ createLast = NothingYet

\* onChangeText={setTitle}
setTitle ==
    /\ createRoute = "/create_listing"
    /\ \E t \in Titles :
         /\ t # createForm.title
         /\ createForm' = [ createForm EXCEPT !.title = t ]
    /\ createLast' = [ NothingYet EXCEPT !.event = "edit" ]
    /\ UNCHANGED <<createErrors, createOps, createRoute>>
    /\ UNCHANGED notCreate

\* the Publish button: handlePublish up to its first await.  validateForm
\* sets errors; an invalid form returns, a valid one builds the payload and
\* starts reading the first image
handlePublish ==
    /\ createRoute = "/create_listing"
    /\ validateForm(createForm) => Len(createOps) < MaxPublishes
    /\ createErrors' = newErrors(createForm)
    /\ createOps' = IF validateForm(createForm)
                    THEN Append(createOps, [ payload |-> payload(createForm),
                                             images  |-> createForm.images,
                                             read    |-> 0,
                                             posted  |-> FALSE ])
                    ELSE createOps
    /\ createLast' = [ NothingYet EXCEPT !.event = "publish" ]
    /\ UNCHANGED <<createForm, createRoute>>
    /\ UNCHANGED notCreate

\* fetch(imageUri) and response.blob() succeed for the next image; after the
\* last image the POST is sent
ImageRead ==
    \E i \in DOMAIN createOps :
        /\ ~createOps[i].posted
        /\ createOps' = [ createOps EXCEPT
                            ![i].read = @ + 1,
                            ![i].posted = (createOps[i].read + 1 = Len(createOps[i].images)) ]
        /\ createLast' = [ NothingYet EXCEPT !.event = "image" ]
        /\ UNCHANGED <<createForm, createErrors, createRoute>>
        /\ UNCHANGED notCreate

\* fetch(imageUri) or response.blob() rejects: catch, alert
ImageReadFails ==
    \E i \in DOMAIN createOps :
        /\ ~createOps[i].posted
        /\ createOps' = RemoveAt(createOps, i)
        /\ createLast' = [ event |-> "settled", outcome |-> "image_error",
                           alert |-> TRUE, pushed |-> FALSE ]
        /\ UNCHANGED <<createForm, createErrors, createRoute>>
        /\ UNCHANGED notCreate

\* the POST is answered with an OK status and a JSON body: router.push('/')
PublishSucceeds ==
    \E i \in DOMAIN createOps :
        /\ createOps[i].posted
        /\ createOps' = RemoveAt(createOps, i)
        /\ createRoute' = "/"
        /\ createLast' = [ event |-> "settled", outcome |-> "ok",
                           alert |-> FALSE, pushed |-> TRUE ]
        /\ UNCHANGED <<createForm, createErrors>>
        /\ UNCHANGED notCreate

\* the POST fails: fetch rejects ("network_error"), the status is not OK
\* ("http_error": throw), or the status is OK and res.json() rejects
\* ("ok_no_json"); each ends in catch: alert, no navigation
PublishFails ==
    \E i \in DOMAIN createOps :
      \E kind \in { "network_error", "http_error", "ok_no_json" } :
        /\ createOps[i].posted
        /\ createOps' = RemoveAt(createOps, i)
        /\ createLast' = [ event |-> "settled", outcome |-> kind,
                           alert |-> TRUE, pushed |-> FALSE ]
        /\ UNCHANGED <<createForm, createErrors, createRoute>>
        /\ UNCHANGED notCreate

NextCreate ==
    setTitle \/ handlePublish \/ ImageRead \/ ImageReadFails
        \/ PublishSucceeds \/ PublishFails

SpecCreate == InitCreate /\ [][NextCreate]_vars

\* ------------------------------------------------- UpdateListingScreen
\* the listing id written into handleUpdate
testListingId == "dfde45d2-be1c-4674-8591-bf1bda1402cb"

\* the id route parameter: absent, the id above, another listing's id
ListingIds == { "", testListingId, "a1" }

\* the listing being edited, as the backend holds it
UpdListings ==
    [ title : { "Desk" }, description : { "Oak desk" },
      price : { Num(25), NoValue }, condition : { "new" },
      listing_type_id : { Num(1), NoValue }, region_id : { Num(1), NoValue },
      thumbnail_url : { 7 } ]

\* the texts and values the user can give a field on this screen
UpdTitles == { "Desk", "Lamp" }
UpdDescriptions == { "Oak desk", "" }
UpdPrices == { "25", "30" }
UpdConditions == { "new", "used-fair" }
UpdCategories == { 1, 4 }

\* Your Listings' handleEditListing: the params of a listing row
listingParams(id, listing) ==
    [ id |-> id,
      title |-> listing.title,
      description |-> listing.description,
      price |-> IF Truthy(listing.price) THEN String(listing.price)
                ELSE "Price not set",
      condition |-> listing.condition,
      listing_type_id |-> String(listing.listing_type_id),
      region_id |-> String(listing.region_id),
      thumbnail_url |-> listing.thumbnail_url ]

\* the data object loadListingData creates from params
dataFromParams(params) ==
    [ title |-> params.title,
      description |-> params.description,
      price |-> IF params.price # "" THEN Number(params.price) ELSE NoValue,
      condition |-> params.condition,
      listing_type_id |-> IF params.listing_type_id # ""
                          THEN Number(params.listing_type_id) ELSE NoValue,
      region_id |-> IF params.region_id # ""
                    THEN Number(params.region_id) ELSE NoValue,
      thumbnail_url |-> params.thumbnail_url ]

\* the values the pre-fill setters receive
prefill(data, loc) ==
    [ images |-> IF data.thumbnail_url # 0 THEN <<data.thumbnail_url>> ELSE <<>>,
      title |-> data.title,
      description |-> data.description,
      price |-> IF Truthy(data.price) THEN String(data.price) ELSE "",
      conditionValue |-> data.condition,
      categoryValue |-> IF Truthy(data.listing_type_id)
                        THEN data.listing_type_id.val ELSE null,
      location |-> loc ]

\* categoryValue (number | null) as a JS value
categoryNumber(c) == IF c = null THEN NoValue ELSE Num(c)

\* getChangedFields: the keys of changes
getChangedFields(form, original) ==
    IF original.isNull THEN {}
    ELSE { f \in { "title", "description", "price", "condition", "listing_type_id" } :
             \/ f = "title" /\ form.title # original.data.title
             \/ f = "description" /\ form.description # original.data.description
             \/ f = "price" /\ StrictNotEqual(Number(form.price), original.data.price)
             \/ f = "condition" /\ form.conditionValue # original.data.condition
             \/ f = "listing_type_id"
                  /\ StrictNotEqual(categoryNumber(form.categoryValue),
                                    original.data.listing_type_id) }

\* a request body: keys are the properties present, an absent property
\* holds a filler
NoBody ==
    [ keys |-> {}, schema_name |-> "", title |-> "", description |-> "",
      price |-> NoValue, condition |-> "", tag_ids |-> <<>>,
      region_id |-> NoValue ]

\* the updateData object built by handleUpdate
updateData(form, original) ==
    LET changedFields == getChangedFields(form, original)
        hasRegion == ~original.isNull /\ Truthy(original.data.region_id)
    IN  [ keys |-> { "schema_name" }
                     \cup (changedFields \ { "listing_type_id" })
                     \cup (IF "listing_type_id" \in changedFields
                           THEN { "tag_ids" } ELSE {})
                     \cup (IF hasRegion THEN { "region_id" } ELSE {}),
          schema_name |-> "ucberkeley",
          title |-> IF "title" \in changedFields THEN form.title ELSE "",
          description |-> IF "description" \in changedFields
                          THEN form.description ELSE "",
          price |-> IF "price" \in changedFields
                    THEN Number(form.price) ELSE NoValue,
          condition |-> IF "condition" \in changedFields
                        THEN form.conditionValue ELSE "",
          tag_ids |-> IF "listing_type_id" \in changedFields
                      THEN <<form.categoryValue>> ELSE <<>>,
          region_id |-> IF hasRegion THEN original.data.region_id ELSE NoValue ]

\* the screen was opened for a listing, from a Your Listings row (params
\* carry the listing) or with the id alone; the effect has not run yet
InitUpdate ==
    /\ FeedInit(0)
    /\ EnrichIdle
    /\ CreateIdle
    /\ ChatIdle
    /\ TimeIdle
    /\ ProfileIdle
    /\ updListing \in UpdListings
    /\ \E id \in ListingIds :
         \/ updParams = idParams(id)
         \/ /\ updListing.listing_type_id.kind = "num"
            /\ updListing.region_id.kind = "num"
            /\ updParams = listingParams(id, updListing)
    /\ updForm = EmptyForm
    /\ updOriginal = NoOriginal
    /\ updLoading = TRUE
    /\ updDataLoaded = FALSE
    /\ updErrors = {}
    /\ updOps = <<>>
    /\ updRoute = "/update_listing"
    /\ updLast = NothingYet

\* a request of this screen
UpdRequest(method, path, id, body) ==
    [ method |-> method, path |-> path, id |-> id, body |-> body ]

\* mutant of loadListingData: after hydrating from the params the GET is
\* sent as well
loadListingData_FetchesToo ==
    /\ updLast.event = "init"
    /\ ~updDataLoaded
    /\ IF updParams.id = ""
       THEN /\ updLast' = [ NothingYet EXCEPT !.event = "mount", !.outcome = "no_id" ]
            /\ UNCHANGED <<updForm, updOriginal, updLoading, updDataLoaded, updOps>>
       ELSE IF updParams.title # ""
       THEN /\ updOriginal' = Original(dataFromParams(updParams))
            /\ updForm' = prefill(dataFromParams(updParams), "Sample Location")
            /\ updLoading' = FALSE
            /\ updDataLoaded' = TRUE
            /\ updLast' = [ NothingYet EXCEPT !.event = "mount", !.outcome = "params" ]
            /\ updOps' = Append(updOps, UpdRequest("GET", "/listings/", updParams.id, NoBody))
       ELSE /\ updOps' = Append(updOps, UpdRequest("GET", "/listings/", updParams.id, NoBody))
            /\ updLoading' = TRUE
            /\ updLast' = [ NothingYet EXCEPT !.event = "mount", !.outcome = "get" ]
            /\ UNCHANGED <<updForm, updOriginal, updDataLoaded>>
    /\ UNCHANGED <<updParams, updListing, updErrors, updRoute>>
    /\ UNCHANGED notUpdate

\* useEffect(() => { ... loadListingData(); }, []) up to its first await:
\* without an id it returns; with params.title it hydrates from the params
\* and runs finally; otherwise fetchFromAPI sends the GET
loadListingData ==
    /\ updLast.event = "init"
    /\ ~updDataLoaded
    /\ IF updParams.id = ""
       THEN /\ updLast' = [ NothingYet EXCEPT !.event = "mount", !.outcome = "no_id" ]
            /\ UNCHANGED <<updForm, updOriginal, updLoading, updDataLoaded, updOps>>
       ELSE IF updParams.title # ""
       THEN /\ updOriginal' = Original(dataFromParams(updParams))
            /\ updForm' = prefill(dataFromParams(updParams), "Sample Location")
            /\ updLoading' = FALSE
            /\ updDataLoaded' = TRUE
            /\ updLast' = [ NothingYet EXCEPT !.event = "mount", !.outcome = "params" ]
            /\ UNCHANGED updOps
       ELSE /\ updOps' = Append(updOps, UpdRequest("GET", "/listings/", updParams.id, NoBody))
            /\ updLoading' = TRUE
            /\ updLast' = [ NothingYet EXCEPT !.event = "mount", !.outcome = "get" ]
            /\ UNCHANGED <<updForm, updOriginal, updDataLoaded>>
    /\ UNCHANGED <<updParams, updListing, updErrors, updRoute>>
    /\ UNCHANGED notUpdate

\* the GET is answered with an OK status and the listing as JSON:
\* fetchFromAPI stores and pre-fills it, then finally
LoadSucceeds ==
    \E i \in DOMAIN updOps :
        /\ updOps[i].method = "GET"
        /\ updOps' = RemoveAt(updOps, i)
        /\ updOriginal' = Original(updListing)
        /\ updForm' = prefill(updListing, "Sample Location")
        /\ updLoading' = FALSE
        /\ updDataLoaded' = TRUE
        /\ updLast' = [ NothingYet EXCEPT !.event = "loaded", !.outcome = "ok" ]
        /\ UNCHANGED <<updParams, updListing, updErrors, updRoute>>
        /\ UNCHANGED notUpdate

\* the GET fails (fetch rejects, status not OK, body not JSON): catch
\* alerts and calls router.back(), then finally
LoadFails ==
    \E i \in DOMAIN updOps :
      \E kind \in { "network_error", "http_error", "ok_no_json" } :
        /\ updOps[i].method = "GET"
        /\ updOps' = RemoveAt(updOps, i)
        /\ updRoute' = "back"
        /\ updLoading' = FALSE
        /\ updDataLoaded' = TRUE
        /\ updLast' = [ event |-> "loaded", outcome |-> kind,
                        alert |-> TRUE, pushed |-> FALSE ]
        /\ UNCHANGED <<updParams, updListing, updForm, updOriginal, updErrors>>
        /\ UNCHANGED notUpdate

\* the form is on screen: the screen is shown and not in its loading view
FormShown == updRoute = "/update_listing" /\ ~updLoading

\* the user edits one field: onChangeText / onSelect / handlePickImages
editField ==
    /\ FormShown
    /\ \/ \E t \in UpdTitles :
            /\ t # updForm.title
            /\ updForm' = [ updForm EXCEPT !.title = t ]
       \/ \E d \in UpdDescriptions :
            /\ d # updForm.description
            /\ updForm' = [ updForm EXCEPT !.description = d ]
       \/ \E p \in UpdPrices :
            /\ p # updForm.price
            /\ updForm' = [ updForm EXCEPT !.price = p ]
       \/ \E c \in UpdConditions :
            /\ c # updForm.conditionValue
            /\ updForm' = [ updForm EXCEPT !.conditionValue = c ]
       \/ \E c \in UpdCategories :
            /\ c # updForm.categoryValue
            /\ updForm' = [ updForm EXCEPT !.categoryValue = c ]
       \/ /\ updForm.images # <<9>>
          /\ updForm' = [ updForm EXCEPT !.images = <<9>> ]
    /\ updLast' = [ NothingYet EXCEPT !.event = "edit" ]
    /\ UNCHANGED <<updParams, updListing, updOriginal, updLoading,
                   updDataLoaded, updErrors, updOps, updRoute>>
    /\ UNCHANGED notUpdate

\* the Update button: handleUpdate up to its await.  validateForm sets
\* errors; an invalid form returns, a valid one sends the PUT
handleUpdate ==
    /\ FormShown
    /\ validateForm(updForm) => Len(updOps) < MaxUpdates
    /\ updErrors' = newErrors(updForm)
    /\ updOps' = IF validateForm(updForm)
                 THEN Append(updOps,
                             UpdRequest("PUT", "/update-listing-basic-info/",
                                        testListingId,
                                        updateData(updForm, updOriginal)))
                 ELSE updOps
    /\ updLast' = [ NothingYet EXCEPT !.event = "update",
                      !.outcome = IF validateForm(updForm) THEN "put" ELSE "invalid" ]
    /\ UNCHANGED <<updParams, updListing, updForm, updOriginal, updLoading,
                   updDataLoaded, updRoute>>
    /\ UNCHANGED notUpdate

\* the PUT is answered with an OK status and a JSON body:
\* router.push('/Your_Listings')
UpdateSucceeds ==
    \E i \in DOMAIN updOps :
        /\ updOps[i].method = "PUT"
        /\ updOps' = RemoveAt(updOps, i)
        /\ updRoute' = "/Your_Listings"
        /\ updLast' = [ event |-> "settled", outcome |-> "ok",
                        alert |-> FALSE, pushed |-> TRUE ]
        /\ UNCHANGED <<updParams, updListing, updForm, updOriginal, updLoading,
                       updDataLoaded, updErrors>>
        /\ UNCHANGED notUpdate

\* the PUT fails (fetch rejects, status not OK, body not JSON): each ends
\* in the same catch, which alerts; the screen stays
UpdateFails ==
    \E i \in DOMAIN updOps :
        /\ updOps[i].method = "PUT"
        /\ updOps' = RemoveAt(updOps, i)
        /\ updLast' = [ event |-> "settled", outcome |-> "error",
                        alert |-> TRUE, pushed |-> FALSE ]
        /\ UNCHANGED <<updParams, updListing, updForm, updOriginal, updLoading,
                       updDataLoaded, updErrors, updRoute>>
        /\ UNCHANGED notUpdate

\* the Cancel button: router.push('/Your_Listings')
handleCancel ==
    /\ FormShown
    /\ updRoute' = "/Your_Listings"
    /\ updLast' = [ event |-> "cancel", outcome |-> "none",
                    alert |-> FALSE, pushed |-> TRUE ]
    /\ UNCHANGED <<updParams, updListing, updForm, updOriginal, updLoading,
                   updDataLoaded, updErrors, updOps>>
    /\ UNCHANGED notUpdate

NextUpdate ==
    loadListingData \/ LoadSucceeds \/ LoadFails \/ editField \/ handleUpdate
        \/ UpdateSucceeds \/ UpdateFails \/ handleCancel

SpecUpdate == InitUpdate /\ [][NextUpdate]_vars

\* --------------------------------------------------------- ChatsScreen
\* setTimeout(..., 500)
TimerDelay == 500
MsPerDay == 86400000

\* Date.prototype.toISOString: the calendar day and the time of day
toISOString(t) == [ day |-> t \div MsPerDay, ms |-> t % MsPerDay ]

\* new Date(iso).getTime()
getTime(iso) == iso.day * MsPerDay + iso.ms

\* mockConversations, built when loadConversations is called at time now
mockConversations(now) ==
    << [ conversation_id |-> "conv-1", unread_count |-> 2,
         last_message_timestamp |-> toISOString(now - 2 * 60000) ],
       [ conversation_id |-> "conv-2", unread_count |-> 0,
         last_message_timestamp |-> toISOString(now - 45 * 60000) ],
       [ conversation_id |-> "conv-3", unread_count |-> 1,
         last_message_timestamp |-> toISOString(now - 3 * 3600000) ],
       [ conversation_id |-> "conv-4", unread_count |-> 0,
         last_message_timestamp |-> toISOString(now - 86400000) ],
       [ conversation_id |-> "conv-5", unread_count |-> 0,
         last_message_timestamp |-> toISOString(now - 604800000) ] >>

\* the comparator of the sort: b - a on the times
compareConversations(a, b) ==
    getTime(b.last_message_timestamp) - getTime(a.last_message_timestamp)

\* mutant of insertConversation: ascending order
insertConversation_Ascending(sorted, c) ==
    LET after == { i \in 1..Len(sorted) : compareConversations(sorted[i], c) >= 0 }
        k == Cardinality(after)
    IN  SubSeq(sorted, 1, k) \o <<c>> \o SubSeq(sorted, k + 1, Len(sorted))

\* one step of Array.prototype.sort (stable): c goes after the elements
\* the comparator does not put behind it
insertConversation(sorted, c) ==
    LET before == { i \in 1..Len(sorted) : compareConversations(sorted[i], c) <= 0 }
        k == Cardinality(before)
    IN  SubSeq(sorted, 1, k) \o <<c>> \o SubSeq(sorted, k + 1, Len(sorted))

\* [...mockConversations].sort(comparator)
RECURSIVE sortedConversations(_)
sortedConversations(list) ==
    IF list = <<>> THEN <<>>
    ELSE insertConversation(sortedConversations(SubSeq(list, 1, Len(list) - 1)),
                            list[Len(list)])

InitChats ==
    /\ FeedInit(0)
    /\ EnrichIdle
    /\ CreateIdle
    /\ UpdateIdle
    /\ TimeIdle
    /\ ProfileIdle
    /\ ChatIdle

\* loadConversations up to setTimeout: setLoading(true), the mock data is
\* built, the callback is scheduled
loadConversations(isRefreshing) ==
    /\ Len(chatTimers) < MaxTimers
    /\ chatLoading' = TRUE
    /\ refreshing' = isRefreshing
    /\ chatTimers' = Append(chatTimers, [ due |-> chatNow + TimerDelay,
                                          data |-> mockConversations(chatNow) ])
    /\ UNCHANGED <<conversations, chatNow>>

\* useEffect(() => { loadConversations(); }, [loadConversations])
ChatMount ==
    /\ ~chatMounted
    /\ chatMounted' = TRUE
    /\ loadConversations(refreshing)
    /\ UNCHANGED notChat

\* RefreshControl onRefresh: setRefreshing(true); loadConversations()
handleRefresh ==
    /\ chatMounted
    /\ loadConversations(TRUE)
    /\ UNCHANGED chatMounted
    /\ UNCHANGED notChat

\* the oldest timer is due and its callback runs: sort, setConversations,
\* setLoading(false), setRefreshing(false)
TimerFires ==
    /\ chatTimers # <<>>
    /\ chatTimers[1].due <= chatNow
    /\ conversations' = sortedConversations(chatTimers[1].data)
    /\ chatLoading' = FALSE
    /\ refreshing' = FALSE
    /\ chatTimers' = Tail(chatTimers)
    /\ UNCHANGED <<chatMounted, chatNow>>
    /\ UNCHANGED notChat

\* time passes; a callback runs when its delay is over or later
ClockTick ==
    /\ chatNow < MaxTicks * TimerDelay
    /\ chatNow' = chatNow + TimerDelay \div 2
    /\ UNCHANGED <<chatMounted, conversations, chatLoading, refreshing, chatTimers>>
    /\ UNCHANGED notChat

NextChats == ChatMount \/ handleRefresh \/ TimerFires \/ ClockTick

SpecChats == InitChats /\ [][NextChats]_vars

\* --------------------------------------------------- formatMessageTime
\* the returned texts: 'Just now', `${n}m ago`, `${n}h ago`, 'Yesterday',
\* `${n}d ago`, and the month and day of a calendar day
JustNow == [ kind |-> "just_now", n |-> 0 ]
MinutesAgo(n) == [ kind |-> "m_ago", n |-> n ]
HoursAgo(n) == [ kind |-> "h_ago", n |-> n ]
Yesterday == [ kind |-> "yesterday", n |-> 0 ]
DaysAgo(n) == [ kind |-> "d_ago", n |-> n ]

\* messageTime.toLocaleDateString('en-US', { month: 'short', day: 'numeric' }):
\* the text of the calendar day of the timestamp
toLocaleDateString(iso) == [ kind |-> "date", n |-> iso.day ]

\* mutant of formatMessageTime: the seventh day is already an absolute date
formatMessageTime_FromSevenDays(now, timestamp) ==
    LET diffMs == now - getTime(timestamp)
        diffMins == diffMs \div 60000
        diffHours == diffMs \div 3600000
        diffDays == diffMs \div MsPerDay
    IN  IF diffMins < 1 THEN JustNow
        ELSE IF diffMins < 60 THEN MinutesAgo(diffMins)
        ELSE IF diffHours < 24 THEN HoursAgo(diffHours)
        ELSE IF diffDays = 1 THEN Yesterday
        ELSE IF diffDays >= 7 THEN toLocaleDateString(timestamp)
        ELSE DaysAgo(diffDays)

\* formatMessageTime(timestamp), called at time now; Math.floor is \div
formatMessageTime(now, timestamp) ==
    LET diffMs == now - getTime(timestamp)
        diffMins == diffMs \div 60000
        diffHours == diffMs \div 3600000
        diffDays == diffMs \div MsPerDay
    IN  IF diffMins < 1 THEN JustNow
        ELSE IF diffMins < 60 THEN MinutesAgo(diffMins)
        ELSE IF diffHours < 24 THEN HoursAgo(diffHours)
        ELSE IF diffDays = 1 THEN Yesterday
        ELSE IF diffDays > 7 THEN toLocaleDateString(timestamp)
        ELSE DaysAgo(diffDays)

\* the elapsed times tried: whole minutes, hours and days up to MaxUnits,
\* each also one millisecond earlier and later, and their negatives (a
\* timestamp ahead of the clock)
Elapsed ==
    LET around == { k * u + e : k \in 0..MaxUnits,
                                u \in { 60000, 3600000, MsPerDay },
                                e \in { 0 - 1, 0, 1 } }
    IN  around \cup { 0 - d : d \in around }

\* a chat tile is about to be rendered: the clock and a timestamp
InitTime ==
    /\ FeedInit(0)
    /\ EnrichIdle
    /\ CreateIdle
    /\ UpdateIdle
    /\ ChatIdle
    /\ ProfileIdle
    /\ tNow \in { MaxUnits * MsPerDay, 12345 }
    /\ \E d \in Elapsed : tTimestamp = toISOString(tNow - d)
    /\ tResult = [ done |-> FALSE, text |-> NoText ]

\* {formatMessageTime(conversation.last_message_timestamp)}
FormatTime ==
    /\ ~tResult.done
    /\ tResult' = [ done |-> TRUE, text |-> formatMessageTime(tNow, tTimestamp) ]
    /\ UNCHANGED <<tNow, tTimestamp>>
    /\ UNCHANGED notTime

NextTime == FormatTime

SpecTime == InitTime /\ [][NextTime]_vars

\* ------------------------------------- Listing Detail / Profile screen
\* the default profileId of the Profile screen's fetchProfile
DefaultProfileId == "51e242d0-e313-47f8-a881-27bba664a57b"

\* the values of the offering_uid route parameter
OfferingUids ==
    { MissingParam, ArrayParam, StringParam(""), StringParam("u1"),
      StringParam("u2") }

\* the profiles the backend holds; the k-th profile returned for an id
ProfileOf(id, k) == [ isNull |-> FALSE, profile_id |-> id, n |-> k ]

\* the JSON bodies of an OK answer to a request for id: without a data
\* property, or with a data array of 0, 1 or 2 profiles
ProfileResponses(id) ==
    { NoResponse, [ NoResponse EXCEPT !.ok = TRUE ] }
        \cup { [ ok |-> TRUE, has_data |-> TRUE, data |-> d ] :
                 d \in { <<>>, <<ProfileOf(id, 1)>>,
                         <<ProfileOf(id, 1), ProfileOf(id, 2)>> } }

\* offering_uid && typeof offering_uid === 'string'
isSellerId(param) == param.kind = "string" /\ param.s # ""

\* fetchProfile(profileId) up to its await: `if (profileLoading) return`,
\* else setProfileLoading(true), setProfileError(null) and the request
fetchProfile(profileId) ==
    IF profileLoading
    THEN UNCHANGED <<profileLoading, profileError, profOps>>
    ELSE /\ profileLoading' = TRUE
         /\ profileError' = NoError
         /\ profOps' = Append(profOps, [ profile_id |-> profileId,
                                         schema_name |-> "ucberkeley" ])

\* the effect of Listing Detail for the current value of the parameter
sellerEffect(param) ==
    IF isSellerId(param)
    THEN fetchProfile(param.s)
    ELSE /\ profileError' = ErrorMessage("No seller ID available for this listing")
         /\ UNCHANGED <<profileLoading, profOps>>

\* one of the two screens was opened; Listing Detail has its parameter
InitProfile ==
    /\ FeedInit(0)
    /\ EnrichIdle
    /\ CreateIdle
    /\ UpdateIdle
    /\ ChatIdle
    /\ TimeIdle
    /\ \/ profScreen = "profile" /\ offering_uid = MissingParam
       \/ profScreen = "detail" /\ offering_uid \in OfferingUids
    /\ ProfileState

\* Profile screen: useEffect(() => { fetchProfile(); }, [])
ProfileMount ==
    /\ profScreen = "profile"
    /\ ~profMounted
    /\ profMounted' = TRUE
    /\ fetchProfile(DefaultProfileId)
    /\ profLast' = [ NoFetch EXCEPT !.event = "mount" ]
    /\ UNCHANGED <<profScreen, offering_uid, profileData>>
    /\ UNCHANGED notProfile

\* Listing Detail: the first run of useEffect(..., [offering_uid])
DetailMount ==
    /\ profScreen = "detail"
    /\ ~profMounted
    /\ profMounted' = TRUE
    /\ sellerEffect(offering_uid)
    /\ profLast' = [ NoFetch EXCEPT !.event = "mount" ]
    /\ UNCHANGED <<profScreen, offering_uid, profileData>>
    /\ UNCHANGED notProfile

\* Listing Detail: the route parameter changes and the effect runs again
OfferingUidChanges ==
    /\ profScreen = "detail"
    /\ profMounted
    /\ \E param \in OfferingUids :
         /\ param # offering_uid
         /\ offering_uid' = param
         /\ sellerEffect(param)
    /\ profLast' = [ NoFetch EXCEPT !.event = "uid" ]
    /\ UNCHANGED <<profScreen, profMounted, profileData>>
    /\ UNCHANGED notProfile

\* the answer is OK and its data array is not empty: setProfileData(data[0]),
\* then finally
ProfileSucceeds ==
    \E i \in DOMAIN profOps :
      \E response \in ProfileResponses(profOps[i].profile_id) :
        /\ response.ok
        /\ response.has_data
        /\ Len(response.data) > 0
        /\ profileData' = response.data[1]
        /\ profileLoading' = FALSE
        /\ profOps' = RemoveAt(profOps, i)
        /\ profLast' = [ event |-> "settled", outcome |-> "ok", response |-> response ]
        /\ UNCHANGED <<profScreen, profMounted, offering_uid, profileError>>
        /\ UNCHANGED notProfile

\* the messages setProfileError receives in catch
FetchErrors ==
    [ network_error |-> "Network request failed",
      http_error    |-> "HTTP error 500: Failed to fetch profile",
      not_json      |-> "JSON Parse error",
      no_data       |-> "Cannot read property '0' of undefined",
      empty_data    |-> "No profile data found in response" ]

\* fetch rejects, the status is not OK, the body is not JSON, has no data
\* property (data[0] throws) or an empty data array: catch, then finally
ProfileFails ==
    \E i \in DOMAIN profOps :
      \E outcome \in DOMAIN FetchErrors :
        /\ profileError' = ErrorMessage(FetchErrors[outcome])
        /\ profileLoading' = FALSE
        /\ profOps' = RemoveAt(profOps, i)
        /\ profLast' = [ event |-> "settled", outcome |-> outcome,
                         response |-> CASE outcome = "no_data"
                                             -> [ NoResponse EXCEPT !.ok = TRUE ]
                                        [] outcome = "empty_data"
                                             -> [ ok |-> TRUE, has_data |-> TRUE, data |-> <<>> ]
                                        [] OTHER -> NoResponse ]
        /\ UNCHANGED <<profScreen, profMounted, offering_uid, profileData>>
        /\ UNCHANGED notProfile

NextProfile ==
    ProfileMount \/ DetailMount \/ OfferingUidChanges \/ ProfileSucceeds
        \/ ProfileFails

SpecProfile == InitProfile /\ [][NextProfile]_vars

\* every request that is sent is eventually answered or fails
FairSpec == Spec /\ WF_vars(FetchSucceeds \/ FetchFails)

\* ----------------------------------------------------------------- claims
\* the last step was the continuation of a fetch that succeeded / failed
Succeeded == event = "response" /\ resp.ok
Failed    == event = "response" /\ ~resp.ok

\* C1: at most one page request is in flight, and loading is true exactly
\* while that request is in flight (so a fetch attempted during a request
\* was rejected, not queued).
C1_OneRequestInFlight ==
    /\ Len(inflight) <= 1
    /\ loading <=> (Len(inflight) = 1)

\* C1 witness: pull-to-refresh ran while a next-page request was in flight
\* and that request is still the only one
C1_Witness ==
    /\ event = "refresh"
    /\ loading
    /\ Len(inflight) = 1
    /\ inflight[1].append
    /\ inflight[1].stale

\* C2: loadMore called while loading or when the feed is exhausted sends no
\* request and leaves listings, lastTime, hasMore and loading unchanged.
C2_LoadMoreRejected ==
    [][ (event' = "loadMore" /\ (loading \/ ~hasMore))
          => UNCHANGED <<inflight, listings, lastTime, hasMore, loading>> ]_vars

\* C2 witness: loadMore ran on an exhausted, idle, non-empty feed
C2_Witness ==
    /\ event = "loadMore"
    /\ ~hasMore
    /\ ~loading
    /\ inflight = <<>>
    /\ listings # <<>>

\* C3: right after a page is applied the feed is exhausted iff the page had
\* fewer than 12 items, and no other step turns hasMore from true to false.
C3_ExhaustedIffShortPage ==
    [][ /\ (event' = "response" /\ resp'.ok)
            => (~hasMore' <=> Len(mappedListings(resp'.data)) < PageSize)
        /\ (hasMore /\ ~hasMore')
            => /\ event' = "response"
               /\ resp'.ok
               /\ Len(mappedListings(resp'.data)) < PageSize ]_vars

\* C3 witness: a page of 1..11 listings was applied and exhausted the feed
C3_Witness ==
    /\ Succeeded
    /\ resp.data.has_listings
    /\ Len(resp.data.listings) > 0
    /\ Len(resp.data.listings) < PageSize
    /\ ~hasMore

RECURSIVE SumSeq(_)
SumSeq(s) == IF s = <<>> THEN 0 ELSE Head(s) + SumSeq(Tail(s))

\* every applied page was full
AllFull(s) == \A k \in DOMAIN s : s[k] = PageSize
\* every applied page but the last was full and the last was short
FullThenShort(s) ==
    /\ s # <<>>
    /\ AllFull(SubSeq(s, 1, Len(s) - 1))
    /\ s[Len(s)] < PageSize

\* C4: while every applied page was full the feed is not exhausted; once the
\* pages applied are full pages followed by one short page, the list has the
\* sum of the page sizes, the feed is exhausted until the next refresh, and
\* a loadMore with no refresh in between sends no request.
C4_ExhaustedAfterFinalPage ==
    /\ [](applied # <<>> /\ AllFull(applied) => hasMore)
    /\ [](FullThenShort(applied)
            => /\ Len(listings) = SumSeq(applied)
               /\ ~refreshed => ~hasMore)
    /\ [][ (FullThenShort(applied) /\ ~refreshed /\ event' = "loadMore")
             => inflight' = inflight ]_vars

\* C4 witness: a page of 12 then a page of 5 were applied, the list has 17
\* items, and a later loadMore sent nothing
C4_Witness ==
    /\ applied = <<PageSize, 5>>
    /\ Len(listings) = PageSize + 5
    /\ event = "loadMore"
    /\ ~refreshed
    /\ ~hasMore
    /\ inflight = <<>>

\* C5: the accumulated list never holds two entries with the same id.
C5_NoDuplicateIds ==
    \A i, j \in DOMAIN listings :
        i # j => listings[i].id # listings[j].id

\* C6: when a next-page result is applied, the previous list is a prefix of
\* the new one and the incoming items follow it in the order returned.
C6_AppendKeepsPrefix ==
    [][ (event' = "response" /\ resp'.ok /\ resp'.req.append)
          => /\ Len(listings') = Len(listings) + Len(mappedListings(resp'.data))
             /\ SubSeq(listings', 1, Len(listings)) = listings
             /\ SubSeq(listings', Len(listings) + 1, Len(listings'))
                  = mappedListings(resp'.data) ]_vars

\* C6 witness: a non-empty next page was applied to a non-empty list
C6_Witness ==
    /\ Succeeded
    /\ resp.req.append
    /\ resp.req.before.listings # <<>>
    /\ Len(resp.data.listings) > 0
    /\ Len(listings) = Len(resp.req.before.listings) + Len(resp.data.listings)

\* C7: when a first-page or refresh result is applied, listings becomes
\* exactly the mapped items of that page, lastTime the time_updated of the
\* page's last item (none for an empty page), and hasMore is false iff the
\* page had fewer than 12 items.
C7_ReplaceResult ==
    [][ (event' = "response" /\ resp'.ok /\ ~resp'.req.append)
          => LET page == mappedListings(resp'.data)
             IN  /\ listings' = page
                 /\ lastTime' = IF Len(page) > 0
                                THEN resp'.data.listings[Len(page)].time_updated
                                ELSE null
                 /\ hasMore' = ~(Len(page) < PageSize) ]_vars

\* C7 witness: a refresh result replaced a longer list
C7_Witness ==
    /\ Succeeded
    /\ ~resp.req.append
    /\ Len(resp.req.before.listings) > PageSize
    /\ Len(listings) = PageSize
    /\ listings = mappedListings(resp.data)
    /\ lastTime = listings[PageSize].time_updated

\* C8: a failed page fetch leaves listings, lastTime and hasMore as they
\* were before the operation began and ends with loading = false.
C8_FailureLeavesFeedUnchanged ==
    Failed => /\ listings = resp.req.before.listings
              /\ lastTime = resp.req.before.lastTime
              /\ hasMore = resp.req.before.hasMore
              /\ ~loading

\* C9: the result of a request is discarded when a refresh was started
\* after the request was sent.
C9_StaleResultDiscarded ==
    [][ (event' = "response" /\ resp'.req.stale)
          => UNCHANGED <<listings, lastTime, hasMore>> ]_vars

\* C10: pull-to-refresh invoked while a request is in flight starts a new
\* first-page request of its own.
C10_RefreshWhileLoadingStartsRequest ==
    [][ (event' = "refresh" /\ loading)
          => /\ Len(inflight') = Len(inflight) + 1
             /\ ~inflight'[Len(inflight')].append
             /\ inflight'[Len(inflight')].query.last_time = null ]_vars

\* a step that put a new request on the wire, and that request
Sent == Len(inflight') = Len(inflight) + 1
NewRequest == inflight'[Len(inflight')]

\* C11: every request sent by the initial load or by pull-to-refresh is a
\* first-page request with no cursor in its query, whatever lastTime was, and
\* pull-to-refresh leaves lastTime = null and hasMore = true.
C11_FirstPageHasNoCursor ==
    [][ /\ (event' \in {"mount", "refresh"} /\ Sent)
            => /\ NewRequest.query.last_time = null
               /\ ~NewRequest.append
        /\ event' = "refresh" => (lastTime' = null /\ hasMore') ]_vars

\* C11 witness: a refresh request is in flight that was sent when the feed
\* had a cursor and was exhausted
C11_Witness ==
    /\ event = "refresh"
    /\ Len(inflight) = 1
    /\ ~inflight[1].append
    /\ inflight[1].before.lastTime # null
    /\ ~inflight[1].before.hasMore
    /\ inflight[1].query.last_time = null
    /\ lastTime = null
    /\ hasMore

\* C12: an append request sent while the list is non-empty carries the
\* time_updated of the last item of the list as its cursor.
C12_AppendCursorIsLastItem ==
    \A k \in DOMAIN inflight :
        (inflight[k].append /\ inflight[k].before.listings # <<>>)
            => inflight[k].query.last_time
                 = inflight[k].before.listings[Len(inflight[k].before.listings)].time_updated

\* C14: an OK response whose JSON has no `listings` field leaves listings,
\* lastTime and hasMore untouched.
C14_MalformedLeavesFeedUnchanged ==
    [][ (event' = "response" /\ resp'.ok /\ ~resp'.data.has_listings)
          => UNCHANGED <<listings, lastTime, hasMore>> ]_vars

\* C15: a request is put on the wire only by the mount effect, loadMore or
\* pull-to-refresh; the continuation of a fetch (failed or not) sends none.
C15_NoAutomaticRetry ==
    [][ /\ Sent => event' \in {"mount", "loadMore", "refresh"}
        /\ event' = "response" => Len(inflight') < Len(inflight) ]_vars

\* C15 witness: a next-page fetch failed and nothing is on the wire
C15_Witness ==
    /\ Failed
    /\ resp.req.append
    /\ inflight = <<>>
    /\ ~loading

\* C16: every loading cycle ends: loading = true is always eventually
\* followed by loading = false.
C16_LoadingEnds == loading ~> ~loading

\* C16 witness: a refresh cycle ended by a failure, back to idle
C16_Witness ==
    /\ Failed
    /\ ~resp.req.append
    /\ resp.req.before.listings # <<>>
    /\ ~loading

\* url is the thumbnail the claim prescribes for an image set: '' (0) for
\* null or an empty array, else the URL of the first image, in the original
\* order, among those with the smallest position
IsThumbnail(images, url) ==
    IF images.isNull \/ images.items = <<>>
    THEN url = 0
    ELSE \E i \in DOMAIN images.items :
            /\ images.items[i].image_url = url
            /\ \A j \in DOMAIN images.items :
                 \/ images.items[i].position < images.items[j].position
                 \/ /\ images.items[i].position = images.items[j].position
                    /\ i <= j

\* C13: the landing feed and Your Listings both select as thumbnail the URL
\* of the image with the smallest position, the first such image on a tie,
\* and the empty string for a null or empty image set.
C13_ThumbnailIsSmallestPosition ==
    /\ eLanding.done => IsThumbnail(eInput, eLanding.url)
    /\ eYours.done => IsThumbnail(eInput, eYours.url)

\* C13 witness: both screens picked the second of three images, which ties
\* with the third for the smallest position
C13_Witness ==
    /\ eLanding.done
    /\ eYours.done
    /\ ~eInput.isNull
    /\ Len(eInput.items) = 3
    /\ eInput.items[2].position < eInput.items[1].position
    /\ eInput.items[2].position = eInput.items[3].position
    /\ eLanding.url = eInput.items[2].image_url
    /\ eYours.url = eInput.items[2].image_url

\* the texts that are a non-empty numeric price
NumericTexts == { "25", "30" }

\* the fields of a form that the claim counts as missing: no image, blank
\* title, blank description, a price that is empty or not numeric, no
\* condition, no category, no location
MissingFields(form) ==
    { f \in { "images", "title", "description", "price", "condition",
              "category", "location" } :
        \/ f = "images" /\ form.images = <<>>
        \/ f = "title" /\ form.title \in { "", " " }
        \/ f = "description" /\ form.description \in { "", " " }
        \/ f = "price" /\ form.price \notin NumericTexts
        \/ f = "condition" /\ form.conditionValue = ""
        \/ f = "category" /\ form.categoryValue = null
        \/ f = "location" /\ form.location = "" }

\* C17: pressing Publish starts a submission (the only source of a POST)
\* exactly when no field is missing; when a field is missing nothing is
\* sent and an error is recorded for each missing field.
C17_PublishOnlyWhenValid ==
    [][ createLast'.event = "publish"
          => /\ (Len(createOps') = Len(createOps) + 1) <=> (MissingFields(createForm) = {})
             /\ MissingFields(createForm) # {}
                  => /\ createOps' = createOps
                     /\ createErrors' = MissingFields(createForm) ]_vars

\* C18: the screen navigates to `/` iff the POST returned a successful
\* (OK status) response; on a network failure, a non-OK status or an image
\* read failure it shows the alert, does not navigate and keeps the form.
C18_NavigateIffPostOk ==
    [][ createLast'.event = "settled"
          => /\ (createLast'.pushed /\ createRoute' = "/")
                  <=> (createLast'.outcome \in { "ok", "ok_no_json" })
             /\ createLast'.outcome \in { "network_error", "http_error", "image_error" }
                  => /\ createLast'.alert
                     /\ ~createLast'.pushed
                     /\ createRoute' = createRoute
                     /\ createForm' = createForm ]_vars

\* the body keys of the fields whose current form value differs from the
\* value held in originalData; the category is sent under tag_ids
DiffersFromOriginal(form, data) ==
    { k \in { "title", "description", "price", "condition", "tag_ids" } :
        \/ k = "title" /\ form.title # data.title
        \/ k = "description" /\ form.description # data.description
        \/ k = "price" /\ Number(form.price) # data.price
        \/ k = "condition" /\ form.conditionValue # data.condition
        \/ k = "tag_ids" /\ categoryNumber(form.categoryValue) # data.listing_type_id }

\* C19: the body of a PUT sent by the Update button holds schema_name plus
\* exactly the fields whose form value differs from originalData, nothing
\* the user did not change, and a changed category as tag_ids.
C19_BodyHoldsOnlyChangedFields ==
    [][ (updLast'.event = "update" /\ updLast'.outcome = "put")
          => LET body == updOps'[Len(updOps')].body
             IN  /\ body.schema_name = "ucberkeley"
                 /\ body.keys = { "schema_name" }
                                   \cup DiffersFromOriginal(updForm, updOriginal.data)
                 /\ "tag_ids" \in body.keys
                      => body.tag_ids = <<updForm.categoryValue>> ]_vars

\* C20: every PUT in flight is addressed to
\* /listings/update-listing-basic-info/{listingId} with listingId the id
\* route parameter of the listing being edited.
C20_PutTargetsEditedListing ==
    \A i \in DOMAIN updOps :
        updOps[i].method = "PUT"
            => /\ updOps[i].path = "/listings/update-listing-basic-info/"
               /\ updOps[i].id = updParams.id

\* the form shows the listing data: each field holds the value of data,
\* the price as its decimal text, the images start with the thumbnail
FormShows(form, data) ==
    /\ form.title = data.title
    /\ form.description = data.description
    /\ form.conditionValue = data.condition
    /\ form.price = (IF data.price \in { Num(25), Num(30) }
                     THEN String(data.price) ELSE "")
    /\ form.categoryValue = (IF data.listing_type_id.kind = "num"
                             THEN data.listing_type_id.val ELSE null)
    /\ form.images = (IF data.thumbnail_url = 0 THEN <<>>
                      ELSE <<data.thumbnail_url>>)

\* the number of GET requests in a sequence of requests
Gets(ops) == Cardinality({ i \in DOMAIN ops : ops[i].method = "GET" })

\* C21: for a listing id, the form is hydrated once and from one source.
\* When the params carry the listing (params.title) no GET is ever sent and
\* originalData is the data of the params; otherwise the one GET goes to
\* /listings/{listingId}, is sent by the first run of the load only, and
\* originalData is the listing it returned.  Whenever originalData is set
\* the form shows that data, and after the load originalData never changes.
C21_HydratedOnceFromOneSource ==
    [][ /\ updParams.title # "" => Gets(updOps') = 0
        /\ Gets(updOps') > Gets(updOps)
             => /\ updLast.event = "init"
                /\ updOps = <<>>
                /\ updOps' = << [ method |-> "GET", path |-> "/listings/",
                                  id |-> updParams.id, body |-> NoBody ] >>
                /\ updParams.id # ""
        /\ updDataLoaded => (updDataLoaded' /\ updOriginal' = updOriginal)
        /\ updOriginal' # updOriginal
             => /\ updOriginal.isNull
                /\ ~updOriginal'.isNull
                /\ updDataLoaded'
                /\ FormShows(updForm', updOriginal'.data)
                /\ IF updParams.title # ""
                   THEN /\ updOriginal'.data.title = updParams.title
                        /\ updOriginal'.data.description = updParams.description
                        /\ updOriginal'.data.condition = updParams.condition
                        /\ updOriginal'.data.thumbnail_url = updParams.thumbnail_url
                        /\ updOriginal'.data.price = Number(updParams.price)
                        /\ updOriginal'.data.listing_type_id = Number(updParams.listing_type_id)
                        /\ updOriginal'.data.region_id = Number(updParams.region_id)
                   ELSE /\ updOriginal'.data = updListing
                        /\ Gets(updOps) = 1
                        /\ Gets(updOps') = 0 ]_vars

\* C21 witness: opened with the id alone, the GET was answered and the form
\* and originalData hold the listing it returned
C21_Witness ==
    /\ updLast.event = "loaded"
    /\ updLast.outcome = "ok"
    /\ updParams.title = ""
    /\ updParams.id = "a1"
    /\ updOriginal = Original(updListing)
    /\ updForm.title = "Desk"
    /\ updDataLoaded
    /\ updOps = <<>>

\* C22: the displayed conversations are in descending order of
\* last_message_timestamp, and when no load is pending both loading and
\* refreshing are false.
C22_SortedAndSettled ==
    /\ \A i, j \in DOMAIN conversations :
          i < j => getTime(conversations[i].last_message_timestamp)
                     >= getTime(conversations[j].last_message_timestamp)
    /\ chatTimers = <<>> => (~chatLoading /\ ~refreshing)

\* C22 witness: a load started after the first one has completed, nothing
\* is pending, and its five conversations are shown, conv-1 first
C22_Witness ==
    /\ chatMounted
    /\ chatTimers = <<>>
    /\ ~chatLoading
    /\ ~refreshing
    /\ Len(conversations) = 5
    /\ conversations[1].conversation_id = "conv-1"
    /\ conversations[5].conversation_id = "conv-5"
    /\ getTime(conversations[1].last_message_timestamp) > 0 - 2 * 60000

\* the elapsed time of the call, in whole milliseconds
ElapsedMs == tNow - getTime(tTimestamp)
WholeDays == ElapsedMs \div 86400000

\* C23: the text is 'Just now' below one minute, 'Nm ago' with
\* N = floor(d / 60000) below one hour, 'Nh ago' with N = floor(d / 3600000)
\* below 24 hours, 'Yesterday' for one whole day, 'Nd ago' for 2 to 7 whole
\* days and an absolute date exactly when more than 7 whole days have
\* passed; each elapsed time falls in exactly one case.
C23_RelativeTimeCases ==
    tResult.done =>
        /\ tResult.text =
             (CASE ElapsedMs < 60000 -> [ kind |-> "just_now", n |-> 0 ]
                [] ElapsedMs >= 60000 /\ ElapsedMs < 3600000
                     -> [ kind |-> "m_ago", n |-> ElapsedMs \div 60000 ]
                [] ElapsedMs >= 3600000 /\ ElapsedMs < 86400000
                     -> [ kind |-> "h_ago", n |-> ElapsedMs \div 3600000 ]
                [] ElapsedMs >= 86400000 /\ WholeDays = 1
                     -> [ kind |-> "yesterday", n |-> 0 ]
                [] WholeDays >= 2 /\ WholeDays <= 7
                     -> [ kind |-> "d_ago", n |-> WholeDays ]
                [] WholeDays > 7
                     -> [ kind |-> "date", n |-> tTimestamp.day ])
        /\ Cardinality({ c \in 1..6 :
                            \/ c = 1 /\ ElapsedMs < 60000
                            \/ c = 2 /\ ElapsedMs >= 60000 /\ ElapsedMs < 3600000
                            \/ c = 3 /\ ElapsedMs >= 3600000 /\ ElapsedMs < 86400000
                            \/ c = 4 /\ ElapsedMs >= 86400000 /\ WholeDays = 1
                            \/ c = 5 /\ WholeDays >= 2 /\ WholeDays <= 7
                            \/ c = 6 /\ WholeDays > 7 }) = 1
        /\ tResult.text.kind = "date" <=> WholeDays > 7

\* C23 witness: exactly seven days have passed and the text is '7d ago'
C23_Witness ==
    /\ tResult.done
    /\ ElapsedMs = 7 * 86400000
    /\ tResult.text = [ kind |-> "d_ago", n |-> 7 ]

\* the parameter carries a seller id: a string that is not empty
HasSellerId(param) == param.kind = "string" /\ param.s # ""

\* C24: on Listing Detail, each run of the effect (on mount and after every
\* change of offering_uid) issues one profile request for exactly the new
\* offering_uid when it is a string, and otherwise issues none and sets the
\* error 'No seller ID available for this listing'.
C24_RequestForEveryUid ==
    [][ (profScreen = "detail" /\ profLast'.event \in { "mount", "uid" })
          => IF HasSellerId(offering_uid')
             THEN /\ Len(profOps') = Len(profOps) + 1
                  /\ profOps'[Len(profOps')].profile_id = offering_uid'.s
             ELSE /\ profOps' = profOps
                  /\ profileError'
                       = [ isNull |-> FALSE,
                           message |-> "No seller ID available for this listing" ] ]_vars

\* C25: a fetch that settles leaves profileLoading false; on an OK answer
\* with a non-empty data array profileData is its first element and
\* profileError is null; on any failure or an empty data array profileError
\* is not null and profileData is unchanged; an effect run while
\* profileLoading is true sends no request.
C25_FetchOutcome ==
    [][ /\ profLast'.event = "settled" => ~profileLoading'
        /\ (profLast'.event = "settled" /\ profLast'.outcome = "ok")
             => /\ profileData' = profLast'.response.data[1]
                /\ profileError'.isNull
        /\ (profLast'.event = "settled" /\ profLast'.outcome # "ok")
             => /\ ~profileError'.isNull
                /\ profileData' = profileData
        /\ (profLast'.event \in { "mount", "uid" } /\ profileLoading)
             => profOps' = profOps ]_vars

====
